---- MODULE Spec2Model ----
(***************************************************************************)
(* Product Manager (src/src/App.tsx): the product store (reducer, context  *)
(* provider, localStorage persistence), the list view (filter projection   *)
(* and pagination) and the product form (validation and submit).           *)
(*                                                                         *)
(* JavaScript values are modelled as tagged records [t, v]; a JS string is *)
(* a sequence of characters, a character being a one-character string or,  *)
(* outside ASCII, the name "U+XXXX" of its code point; a JS number is a     *)
(* decimal [nan, m, e] standing for m / 10^e.                               *)
(***************************************************************************)
EXTENDS Integers, Sequences, FiniteSets, TLC

VARIABLES
    state,      \* ProductProvider's useReducer state: [products, nextId]
    storage,    \* localStorage entry under LS_KEY: [has, raw]
    boot,       \* the mount effect of ProductProvider: [ran, source, threw]
    last,       \* the last dispatch: [type, pre, payload, wrote, threw]
    assigned,   \* identifiers given out by "add" since the page was loaded
    search,     \* the URL's search parameters: <<[k, v], ...>>
    page,       \* ProductListPage's page state
    requested,  \* the last call of onPage by Pagination: [ctl, p, of]
    form,       \* ProductForm's state: [mode, initial, v, touched]
    emitted,    \* the payloads ProductForm has handed to onSubmit
    event,      \* what ProductForm handled last: none, input, rejected, accepted
    route       \* the router's location: [path, id]

vars == <<state, storage, boot, last, assigned, search, page, requested, form, emitted, event, route>>

(***************************************************************************)
(* Strings                                                                 *)
(***************************************************************************)

UpperChars ==
    <<"A", "B", "C", "D", "E", "F", "G", "H", "I", "J", "K", "L", "M",
      "N", "O", "P", "Q", "R", "S", "T", "U", "V", "W", "X", "Y", "Z",
      "U+00C1", "U+0102", "U+0110">>

LowerChars ==
    <<"a", "b", "c", "d", "e", "f", "g", "h", "i", "j", "k", "l", "m",
      "n", "o", "p", "q", "r", "s", "t", "u", "v", "w", "x", "y", "z",
      "U+00E1", "U+0103", "U+0111">>

\* String.prototype.toLowerCase, one character
LowerChar(c) ==
    IF \E i \in 1..Len(UpperChars) : UpperChars[i] = c
    THEN LowerChars[CHOOSE i \in 1..Len(UpperChars) : UpperChars[i] = c]
    ELSE c

toLowerCase(s) == [i \in 1..Len(s) |-> LowerChar(s[i])]

IsSpace(c) == c \in {" ", "\t", "\n"}

RECURSIVE trimStart(_)
trimStart(s) ==
    IF s # <<>> /\ IsSpace(Head(s)) THEN trimStart(Tail(s)) ELSE s

RECURSIVE trimEnd(_)
trimEnd(s) ==
    IF s # <<>> /\ IsSpace(s[Len(s)]) THEN trimEnd(SubSeq(s, 1, Len(s) - 1)) ELSE s

\* String.prototype.trim
trim(s) == trimEnd(trimStart(s))

\* String.prototype.includes
includes(s, q) ==
    \E i \in 0..(Len(s) - Len(q)) : SubSeq(s, i + 1, i + Len(q)) = q

(***************************************************************************)
(* Numbers: the decimal m / 10^e, kept normalised (no trailing zero in the *)
(* fraction), or NaN.                                                      *)
(***************************************************************************)

NaN == [nan |-> TRUE, m |-> 0, e |-> 0]

RECURSIVE Pow10(_)
Pow10(k) == IF k = 0 THEN 1 ELSE 10 * Pow10(k - 1)

RECURSIVE Norm(_, _)
Norm(m, e) ==
    IF e > 0 /\ m % 10 = 0 THEN Norm(m \div 10, e - 1)
    ELSE [nan |-> FALSE, m |-> m, e |-> e]

N(i) == [nan |-> FALSE, m |-> i, e |-> 0]

NumLE(a, b) == ~a.nan /\ ~b.nan /\ a.m * Pow10(b.e) <= b.m * Pow10(a.e)

NumLT(a, b) == ~a.nan /\ ~b.nan /\ a.m * Pow10(b.e) < b.m * Pow10(a.e)

NumAdd(a, b) ==
    IF a.nan \/ b.nan THEN NaN
    ELSE LET e == IF a.e > b.e THEN a.e ELSE b.e
         IN Norm(a.m * Pow10(e - a.e) + b.m * Pow10(e - b.e), e)

\* Number.isNaN, Number.isInteger
isNaN(a) == a.nan

isInteger(a) == ~a.nan /\ a.e = 0

DigitChars == <<"0", "1", "2", "3", "4", "5", "6", "7", "8", "9">>

IsDigit(c) == \E i \in 1..10 : DigitChars[i] = c

DigitVal(c) == (CHOOSE i \in 1..10 : DigitChars[i] = c) - 1

RECURSIVE DigitsValue(_)
DigitsValue(ds) ==
    IF ds = <<>> THEN 0
    ELSE 10 * DigitsValue(SubSeq(ds, 1, Len(ds) - 1)) + DigitVal(ds[Len(ds)])

\* Number(string): white space is trimmed, the empty string is 0, a signed
\* decimal literal is its value and anything else is NaN.  Exponents, radix
\* prefixes and "Infinity" are not modelled: no input of the model holds them.
Number(s) ==
    LET t == trim(s) IN
    IF t = <<>> THEN N(0)
    ELSE LET body == IF t[1] \in {"-", "+"} THEN Tail(t) ELSE t
             dots == {i \in 1..Len(body) : body[i] = "."}
         IN IF \/ \E i \in 1..Len(body) : ~IsDigit(body[i]) /\ body[i] # "."
               \/ Cardinality(dots) > 1
               \/ ~\E i \in 1..Len(body) : IsDigit(body[i])
            THEN NaN
            ELSE LET d == IF dots = {} THEN Len(body) + 1 ELSE CHOOSE i \in dots : TRUE
                     ip == SubSeq(body, 1, d - 1)
                     fp == SubSeq(body, d + 1, Len(body))
                     mag == DigitsValue(ip \o fp)
                 IN Norm(IF t[1] = "-" THEN 0 - mag ELSE mag, Len(fp))

RECURSIVE NatDigits(_)
NatDigits(n) ==
    IF n < 10 THEN <<DigitChars[n + 1]>>
    ELSE Append(NatDigits(n \div 10), DigitChars[(n % 10) + 1])

RECURSIVE PadLeft(_, _)
PadLeft(ds, w) == IF Len(ds) >= w THEN ds ELSE PadLeft(<<"0">> \o ds, w)

\* String(number), Number.prototype.toString: decimal notation
String(a) ==
    IF a.nan THEN <<"N", "a", "N">>
    ELSE LET mag == IF a.m < 0 THEN 0 - a.m ELSE a.m
             ds == PadLeft(NatDigits(mag), a.e + 1)
             ip == SubSeq(ds, 1, Len(ds) - a.e)
             fp == SubSeq(ds, Len(ds) - a.e + 1, Len(ds))
         IN (IF a.m < 0 THEN <<"-">> ELSE <<>>)
            \o ip \o (IF a.e > 0 THEN <<".">> \o fp ELSE <<>>)

(***************************************************************************)
(* Values                                                                  *)
(***************************************************************************)

JUndefined == [t |-> "undefined", v |-> <<>>]
JNull == [t |-> "null", v |-> <<>>]
JBool(b) == [t |-> "boolean", v |-> b]
JNum(a) == [t |-> "number", v |-> a]
JStr(s) == [t |-> "string", v |-> s]
JArr(a) == [t |-> "array", v |-> a]
\* an object: its own properties <<[k, v], ...>> in insertion order
JObj(ms) == [t |-> "object", v |-> ms]

HasKey(ms, k) == \E i \in 1..Len(ms) : ms[i].k = k

\* o.k for an object, array, string, number or boolean o
Get(o, k) ==
    IF o.t = "object" /\ HasKey(o.v, k)
    THEN o.v[CHOOSE i \in 1..Len(o.v) : o.v[i].k = k].v
    ELSE JUndefined

\* x === y
StrictEq(x, y) ==
    /\ x.t = y.t
    /\ x.t = "number" => ~x.v.nan /\ ~y.v.nan
    /\ x.v = y.v

\* ToBoolean
Truthy(x) ==
    CASE x.t \in {"undefined", "null"} -> FALSE
      [] x.t = "boolean" -> x.v
      [] x.t = "number" -> ~x.v.nan /\ x.v.m # 0
      [] x.t = "string" -> x.v # <<>>
      [] OTHER -> TRUE

KLength == <<"l", "e", "n", "g", "t", "h">>

\* x.length
LengthOf(x) ==
    CASE x.t \in {"array", "string"} -> JNum(N(Len(x.v)))
      [] x.t = "object" -> Get(x, KLength)
      [] OTHER -> JUndefined

\* ToNumber
RECURSIVE ToNumber(_)
ToNumber(x) ==
    CASE x.t = "undefined" -> NaN
      [] x.t = "null" -> N(0)
      [] x.t = "boolean" -> IF x.v THEN N(1) ELSE N(0)
      [] x.t = "number" -> x.v
      [] x.t = "string" -> Number(x.v)
      [] x.t = "array" ->
            IF Len(x.v) = 0 THEN N(0)
            ELSE IF Len(x.v) > 1 THEN NaN
            ELSE IF x.v[1].t \in {"boolean", "object"} THEN NaN
            ELSE IF x.v[1].t \in {"undefined", "null"} THEN N(0)
            ELSE ToNumber(x.v[1])
      [] OTHER -> NaN

\* Math.max(a, b) of two numbers
MathMax(a, b) ==
    IF a.nan \/ b.nan THEN NaN ELSE IF NumLE(a, b) THEN b ELSE a

(***************************************************************************)
(* JSON text, as the sequence of its tokens: the punctuators, the literals *)
(* null, true and false, a number with its digits and a string with its    *)
(* escaped characters.                                                      *)
(***************************************************************************)

Tok(t, s) == [t |-> t, s |-> s]

Punct(t) == Tok(t, <<>>)

RECURSIVE Escape(_)
\* QuoteJSONString: a quotation mark and a reverse solidus get a reverse solidus
Escape(s) ==
    IF \A i \in 1..Len(s) : s[i] \notin {"\"", "\\"} THEN s
    ELSE (IF Head(s) \in {"\"", "\\"} THEN <<"\\", Head(s)>> ELSE <<Head(s)>>)
         \o Escape(Tail(s))

RECURSIVE EscapesOk(_, _)
EscapesOk(s, i) ==
    \/ \A j \in i..Len(s) : s[j] \notin {"\\", "\""}
    \/ /\ s[i] = "\\"
       /\ i + 1 <= Len(s)
       /\ s[i + 1] \in {"\"", "\\"}
       /\ EscapesOk(s, i + 2)
    \/ /\ s[i] \notin {"\\", "\""}
       /\ EscapesOk(s, i + 1)

RECURSIVE Unescape(_, _)
Unescape(s, i) ==
    IF \A j \in i..Len(s) : s[j] # "\\" THEN SubSeq(s, i, Len(s))
    ELSE IF s[i] = "\\" THEN <<s[i + 1]>> \o Unescape(s, i + 2)
    ELSE <<s[i]>> \o Unescape(s, i + 1)

\* the JSON number grammar without the exponent: -? int (. digits)?
JSONNumberOk(s) ==
    LET body == IF s # <<>> /\ s[1] = "-" THEN Tail(s) ELSE s
        dots == {i \in 1..Len(body) : body[i] = "."}
        d == IF dots = {} THEN Len(body) + 1 ELSE CHOOSE i \in dots : TRUE
    IN /\ \A i \in 1..Len(body) : IsDigit(body[i]) \/ body[i] = "."
       /\ Cardinality(dots) <= 1
       /\ d > 1
       /\ d # Len(body)
       /\ body[1] = "0" => d = 2

RECURSIVE stringify(_)
RECURSIVE stringifyElements(_)
RECURSIVE stringifyMembers(_)

\* JSON.stringify: a number that is not finite is null; in an array an undefined
\* element is null; in an object an undefined property is left out
stringify(x) ==
    CASE x.t = "number" ->
            IF x.v.nan THEN <<Punct("null")>> ELSE <<Tok("number", String(x.v))>>
      [] x.t = "string" -> <<Tok("string", Escape(x.v))>>
      [] x.t = "boolean" -> <<Punct(IF x.v THEN "true" ELSE "false")>>
      [] x.t = "array" -> <<Punct("[")>> \o stringifyElements(x.v) \o <<Punct("]")>>
      [] x.t = "object" ->
            <<Punct("{")>>
            \o stringifyMembers(SelectSeq(x.v, LAMBDA m : m.v.t # "undefined"))
            \o <<Punct("}")>>
      [] OTHER -> <<Punct("null")>>

stringifyElements(a) ==
    IF a = <<>> THEN <<>>
    ELSE stringify(Head(a))
         \o (IF Len(a) > 1 THEN <<Punct(",")>> ELSE <<>>)
         \o stringifyElements(Tail(a))

stringifyMembers(ms) ==
    IF ms = <<>> THEN <<>>
    ELSE <<Tok("string", Escape(Head(ms).k)), Punct(":")>>
         \o stringify(Head(ms).v)
         \o (IF Len(ms) > 1 THEN <<Punct(",")>> ELSE <<>>)
         \o stringifyMembers(Tail(ms))

SyntaxError == [ok |-> FALSE, val |-> JUndefined, next |-> 0]

Parsed(x, i) == [ok |-> TRUE, val |-> x, next |-> i]

\* [[Set]] of a parsed member: a repeated name keeps its place and takes the
\* later value
SetMember(ms, k, x) ==
    IF HasKey(ms, k)
    THEN [i \in 1..Len(ms) |-> IF ms[i].k = k THEN [k |-> k, v |-> x] ELSE ms[i]]
    ELSE Append(ms, [k |-> k, v |-> x])

RECURSIVE parseValue(_, _)
RECURSIVE parseElements(_, _, _)
RECURSIVE parseMembers(_, _, _)

\* JSON.parse, one value starting at token i
parseValue(ts, i) ==
    IF i > Len(ts) THEN SyntaxError
    ELSE CASE ts[i].t = "number" ->
                 IF JSONNumberOk(ts[i].s) THEN Parsed(JNum(Number(ts[i].s)), i + 1)
                 ELSE SyntaxError
           [] ts[i].t = "string" ->
                 IF EscapesOk(ts[i].s, 1) THEN Parsed(JStr(Unescape(ts[i].s, 1)), i + 1)
                 ELSE SyntaxError
           [] ts[i].t = "null" -> Parsed(JNull, i + 1)
           [] ts[i].t = "true" -> Parsed(JBool(TRUE), i + 1)
           [] ts[i].t = "false" -> Parsed(JBool(FALSE), i + 1)
           [] ts[i].t = "[" ->
                 IF i + 1 <= Len(ts) /\ ts[i + 1].t = "]" THEN Parsed(JArr(<<>>), i + 2)
                 ELSE parseElements(ts, i + 1, <<>>)
           [] ts[i].t = "{" ->
                 IF i + 1 <= Len(ts) /\ ts[i + 1].t = "}" THEN Parsed(JObj(<<>>), i + 2)
                 ELSE parseMembers(ts, i + 1, <<>>)
           [] OTHER -> SyntaxError

parseElements(ts, i, acc) ==
    LET r == parseValue(ts, i) IN
    IF ~r.ok \/ r.next > Len(ts) THEN SyntaxError
    ELSE IF ts[r.next].t = "," THEN parseElements(ts, r.next + 1, Append(acc, r.val))
    ELSE IF ts[r.next].t = "]" THEN Parsed(JArr(Append(acc, r.val)), r.next + 1)
    ELSE SyntaxError

parseMembers(ts, i, acc) ==
    IF i + 1 > Len(ts) \/ ts[i].t # "string" \/ ts[i + 1].t # ":" THEN SyntaxError
    ELSE IF ~EscapesOk(ts[i].s, 1) THEN SyntaxError
    ELSE LET r == parseValue(ts, i + 2)
             ms == SetMember(acc, Unescape(ts[i].s, 1), r.val)
         IN IF ~r.ok \/ r.next > Len(ts) THEN SyntaxError
            ELSE IF ts[r.next].t = "," THEN parseMembers(ts, r.next + 1, ms)
            ELSE IF ts[r.next].t = "}" THEN Parsed(JObj(ms), r.next + 1)
            ELSE SyntaxError

\* JSON.parse(raw): the one value the whole text is, or a SyntaxError
parse(ts) ==
    LET r == parseValue(ts, 1) IN
    IF r.ok /\ r.next = Len(ts) + 1 THEN r ELSE SyntaxError

(***************************************************************************)
(* localStorage, the one entry under LS_KEY                                *)
(***************************************************************************)

NoEntry == [has |-> FALSE, raw |-> <<>>]

\* localStorage.setItem(LS_KEY, raw); it throws when the quota is exceeded or
\* storage is disabled (ok = FALSE)
setItem(store, raw, ok) ==
    IF ok THEN [storage |-> [has |-> TRUE, raw |-> raw], threw |-> FALSE]
    ELSE [storage |-> store, threw |-> TRUE]

\* persist without its try/catch
persistUncaught(products, store, ok) ==
    LET w == setItem(store, stringify(JArr(products)), ok)
    IN [storage |-> w.storage, threw |-> w.threw]

\* persist: whatever setItem throws is caught and dropped
persist(products, store, ok) ==
    LET w == setItem(store, stringify(JArr(products)), ok)
    IN [storage |-> w.storage, threw |-> FALSE]

\* loadFromStorage reading a key nothing was written under
loadFromStorageOtherKey(store) == JNull

\* loadFromStorage: null for a missing or empty entry and for text JSON.parse
\* rejects; otherwise the parsed value, whatever it is
loadFromStorage(store) ==
    IF ~store.has \/ store.raw = <<>> THEN JNull
    ELSE LET r == parse(store.raw) IN IF r.ok THEN r.val ELSE JNull
\* DanhMuc: the five category labels
DienTu == <<"U+0110", "i", "U+1EC7", "n", " ", "t", "U+1EED">>

QuanAo == <<"Q", "u", "U+1EA7", "n", " ", "U+00E1", "o">>

DoAn == <<"U+0110", "U+1ED3", " ", "U+0103", "n">>

Sach == <<"S", "U+00E1", "c", "h">>

Khac == <<"K", "h", "U+00E1", "c">>

CATEGORIES == <<DienTu, QuanAo, DoAn, Sach, Khac>>

PAGE_SIZE == 6

KId == <<"i", "d">>
KTen == <<"t", "e", "n">>
KDanhMuc == <<"d", "a", "n", "h", "M", "u", "c">>
KGia == <<"g", "i", "a">>
KSoLuong == <<"s", "o", "L", "u", "o", "n", "g">>
KMoTa == <<"m", "o", "T", "a">>

\* a Product object literal, its properties in the order the source writes them
Product(id, ten, danhMuc, gia, soLuong, moTa) ==
    JObj(<<[k |-> KId, v |-> JNum(id)],
           [k |-> KTen, v |-> JStr(ten)],
           [k |-> KDanhMuc, v |-> JStr(danhMuc)],
           [k |-> KGia, v |-> JNum(gia)],
           [k |-> KSoLuong, v |-> JNum(soLuong)],
           [k |-> KMoTa, v |-> JStr(moTa)]>>)

\* the payload of "add": Omit<Product, "id">
NewProduct(ten, danhMuc, gia, soLuong, moTa) ==
    JObj(<<[k |-> KTen, v |-> JStr(ten)],
           [k |-> KDanhMuc, v |-> JStr(danhMuc)],
           [k |-> KGia, v |-> JNum(gia)],
           [k |-> KSoLuong, v |-> JNum(soLuong)],
           [k |-> KMoTa, v |-> JStr(moTa)]>>)

initialProducts ==
    <<
    Product(N(1),
        <<"i", "P", "h", "o", "n", "e", " ", "1", "5", " ", "P", "r", "o">>,
        DienTu, N(25000000), N(10),
        <<"F", "l", "a", "g", "s", "h", "i", "p", " ", "A", "p", "p", "l", "e",
          ",", " ", "c", "h", "i", "p", " ", "A", "1", "7", " ", "P", "r", "o",
          ".">>),
    Product(N(2),
        <<"U+00C1", "o", " ", "T", "h", "u", "n", " ", "N", "a", "m">>,
        QuanAo, N(150000), N(50),
        <<"C", "o", "t", "t", "o", "n", " ", "1", "0", "0", "%", ",", " ", "f",
          "o", "r", "m", " ", "r", "e", "g", "u", "l", "a", "r", " ", "f", "i",
          "t", ".">>),
    Product(N(3),
        <<"B", "U+00E1", "n", "h", " ", "M", "U+00EC", " ", "B", "U+01A1", " ",
          "T", "U+1ECF", "i">>,
        DoAn, N(35000), N(120),
        <<"G", "i", "U+00F2", "n", " ", "t", "h", "U+01A1", "m", ",", " ", "l",
          "U+00E0", "m", " ", "m", "U+1EDB", "i", " ", "m", "U+1ED7", "i", " ",
          "n", "g", "U+00E0", "y", ".">>),
    Product(N(4),
        <<"S", "U+00E1", "c", "h", " ", "D", "U+1EA1", "y", " ", "N", "U+1EA5",
          "u", " ", "U+0102", "n">>,
        Sach, N(99000), N(40),
        <<"T", "u", "y", "U+1EC3", "n", " ", "t", "U+1EAD", "p", " ", "c",
          "U+00F4", "n", "g", " ", "t", "h", "U+1EE9", "c", " ", "d", "U+1EC5",
          " ", "l", "U+00E0", "m", ".">>),
    Product(N(5),
        <<"T", "a", "i", " ", "N", "g", "h", "e", " ", "B", "l", "u", "e", "t",
          "o", "o", "t", "h">>,
        DienTu, N(790000), N(35),
        <<"B", "l", "u", "e", "t", "o", "o", "t", "h", " ", "5", ".", "3", ",",
          " ", "c", "h", "U+1ED1", "n", "g", " ", "U+1ED3", "n", " ", "c", "h",
          "U+1EE7", " ", "U+0111", "U+1ED9", "n", "g", ".">>),
    Product(N(6),
        <<"Q", "u", "U+1EA7", "n", " ", "J", "e", "a", "n", " ", "S", "l", "i",
          "m">>,
        QuanAo, N(399000), N(28),
        <<"D", "e", "n", "i", "m", " ", "c", "o", " ", "g", "i", "U+00E3", "n",
          ",", " ", "x", "a", "n", "h", " ", "U+0111", "U+1EAD", "m", ".">>),
    Product(N(7),
        <<"C", "U+01A1", "m", " ", "G", "U+00E0", " ", "X", "U+1ED1", "i", " ",
          "M", "U+1EE1">>,
        DoAn, N(45000), N(60),
        <<"S", "u", "U+1EA5", "t", " ", "U+0103", "n", " ", "n", "U+00F3", "n",
          "g", ",", " ", "g", "U+00E0", " ", "g", "i", "U+00F2", "n", " ", "r",
          "U+1EE5", "m", ".">>),
    Product(N(8),
        <<"S", "U+00E1", "c", "h", " ", "K", "i", "n", "h", " ", "T", "U+1EBF",
          " ", "H", "U+1ECD", "c">>,
        Sach, N(159000), N(22),
        <<"N", "h", "U+1EAD", "p", " ", "m", "U+00F4", "n", " ", "k", "i", "n",
          "h", " ", "t", "U+1EBF", " ", "(", "b", "U+1EA3", "n", " ", "m",
          "U+1EDB", "i", ")", ".">>),
    Product(N(9),
        <<"B", "U+00EC", "n", "h", " ", "G", "i", "U+1EEF", " ", "N", "h", "i",
          "U+1EC7", "t">>,
        Khac, N(199000), N(45),
        <<"G", "i", "U+1EEF", " ", "n", "U+00F3", "n", "g", "/", "l", "U+1EA1",
          "n", "h", " ", "6", "-", "8", "h", ",", " ", "5", "0", "0", "m", "l",
          ".">>),
    Product(N(10),
        <<"C", "h", "u", "U+1ED9", "t", " ", "K", "h", "U+00F4", "n", "g", " ",
          "D", "U+00E2", "y">>,
        DienTu, N(259000), N(70),
        <<"2", ".", "4", "G", " ", "+", " ", "B", "T", ",", " ", "D", "P", "I",
          " ", "8", "0", "0", "-", "1", "6", "0", "0", "-", "2", "4", "0", "0",
          ".">>),
    Product(N(11),
        <<"U+00C1", "o", " ", "K", "h", "o", "U+00E1", "c", " ", "H", "o", "o",
          "d", "i", "e">>,
        QuanAo, N(499000), N(15),
        <<"N", "U+1EC9", " ", "d", "U+00E0", "y", ",", " ", "c", "U+00F3", " ",
          "m", "U+0169", ",", " ", "u", "n", "i", "s", "e", "x", ".">>)
    >>

(***************************************************************************)
(* The reducer.  It returns the next state, what it left in localStorage   *)
(* and whether it threw; a reducer that throws leaves the state as it was.  *)
(* The elements of state.products are objects wherever "update" and         *)
(* "delete" are dispatched.                                                 *)
(***************************************************************************)

Id(p) == Get(p, KId)

RECURSIVE Spread(_, _)
\* { ...a, ...b } on the properties of a and b
Spread(a, b) ==
    IF b = <<>> THEN a ELSE Spread(SetMember(a, Head(b).k, Head(b).v), Tail(b))

Returned(s, store) == [state |-> s, storage |-> store, threw |-> FALSE]

Thrown(s, store) == [state |-> s, storage |-> store, threw |-> TRUE]

RECURSIVE reduceMaxId(_, _)
\* payload.reduce((m, p) => Math.max(m, p.id), 0): reading .id of null throws
reduceMaxId(a, m) ==
    IF a = <<>> THEN [threw |-> FALSE, m |-> m]
    ELSE IF Head(a).t \in {"null", "undefined"} THEN [threw |-> TRUE, m |-> m]
    ELSE reduceMaxId(Tail(a), MathMax(m, ToNumber(Id(Head(a)))))

\* reducerHydrate with the next identifier taken from the length of the list
reducerHydrateByLength(s, payload, store) ==
    IF payload.t # "array" THEN Thrown(s, store)
    ELSE LET r == reduceMaxId(payload.v, N(0)) IN
         IF r.threw THEN Thrown(s, store)
         ELSE Returned([products |-> payload.v, nextId |-> N(Len(payload.v) + 1)], store)

\* case "hydrate": a payload that is no array has no reduce method
reducerHydrate(s, payload, store) ==
    IF payload.t # "array" THEN Thrown(s, store)
    ELSE LET r == reduceMaxId(payload.v, N(0)) IN
         IF r.threw THEN Thrown(s, store)
         ELSE Returned([products |-> payload.v, nextId |-> NumAdd(r.m, N(1))], store)

\* reducerAdd with the new product put at the end of the list
reducerAddAtEnd(s, payload, store, ok) ==
    LET newProduct == JObj(Spread(<<[k |-> KId, v |-> JNum(s.nextId)]>>, payload.v))
        products == Append(s.products, newProduct)
        w == persist(products, store, ok)
    IN IF w.threw THEN Thrown(s, w.storage)
       ELSE Returned([products |-> products, nextId |-> NumAdd(s.nextId, N(1))], w.storage)

\* case "add"
reducerAdd(s, payload, store, ok) ==
    LET newProduct == JObj(Spread(<<[k |-> KId, v |-> JNum(s.nextId)]>>, payload.v))
        products == <<newProduct>> \o s.products
        w == persist(products, store, ok)
    IN IF w.threw THEN Thrown(s, w.storage)
       ELSE Returned([products |-> products, nextId |-> NumAdd(s.nextId, N(1))], w.storage)

\* reducerUpdate that inserts the payload when no element has its identifier
reducerUpdateOrInsert(s, payload, store, ok) ==
    LET replaced == [i \in 1..Len(s.products) |->
                        IF StrictEq(Id(s.products[i]), Id(payload)) THEN payload
                        ELSE s.products[i]]
        products == IF \E i \in 1..Len(s.products) : StrictEq(Id(s.products[i]), Id(payload))
                    THEN replaced ELSE <<payload>> \o s.products
        w == persist(products, store, ok)
    IN IF w.threw THEN Thrown(s, w.storage)
       ELSE Returned([s EXCEPT !.products = products], w.storage)

\* case "update"
reducerUpdate(s, payload, store, ok) ==
    LET products == [i \in 1..Len(s.products) |->
                        IF StrictEq(Id(s.products[i]), Id(payload)) THEN payload
                        ELSE s.products[i]]
        w == persist(products, store, ok)
    IN IF w.threw THEN Thrown(s, w.storage)
       ELSE Returned([s EXCEPT !.products = products], w.storage)

\* reducerDelete with the filter's test inverted
reducerDeleteInverted(s, payload, store, ok) ==
    LET products == SelectSeq(s.products, LAMBDA p : StrictEq(Id(p), Id(payload)))
        w == persist(products, store, ok)
    IN IF w.threw THEN Thrown(s, w.storage)
       ELSE Returned([s EXCEPT !.products = products], w.storage)

\* case "delete"
reducerDelete(s, payload, store, ok) ==
    LET products == SelectSeq(s.products, LAMBDA p : ~StrictEq(Id(p), Id(payload)))
        w == persist(products, store, ok)
    IN IF w.threw THEN Thrown(s, w.storage)
       ELSE Returned([s EXCEPT !.products = products], w.storage)

reducer(s, action, store, ok) ==
    CASE action.type = "hydrate" -> reducerHydrate(s, action.payload, store)
      [] action.type = "add" -> reducerAdd(s, action.payload, store, ok)
      [] action.type = "update" -> reducerUpdate(s, action.payload, store, ok)
      [] action.type = "delete" -> reducerDelete(s, action.payload, store, ok)
      [] OTHER -> Returned(s, store)

(***************************************************************************)
(* ProductProvider                                                         *)
(***************************************************************************)

\* useReducer(reducer, { products: [], nextId: 1 })
initialState == [products |-> <<>>, nextId |-> N(1)]

NotBooted == [ran |-> FALSE, source |-> "none", threw |-> FALSE]

NoDispatch == [type |-> "none", payload |-> JUndefined, wrote |-> TRUE, threw |-> FALSE]

Dispatched(action, ok, r) ==
    [type |-> action.type, payload |-> action.payload, wrote |-> ok, threw |-> r.threw]

\* fromLS && fromLS.length
usePersisted(fromLS) == Truthy(fromLS) /\ Truthy(LengthOf(fromLS))

\* the payload the mount effect dispatches
hydratePayload(store) ==
    LET fromLS == loadFromStorage(store)
    IN IF usePersisted(fromLS) THEN fromLS ELSE JArr(initialProducts)

NoRequest == [ctl |-> "none", p |-> 1, of |-> 1]

\* the routes of Shell; id is the text of the :id segment
HomeRoute == [path |-> "/", id |-> <<>>]

AddRoute == [path |-> "/add", id |-> <<>>]

DetailRoute(id) == [path |-> "/products/:id", id |-> id]

EditRoute(id) == [path |-> "/edit/:id", id |-> id]

BlankDraft == [ten |-> <<>>, danhMuc |-> <<>>, gia |-> <<>>, soLuong |-> <<>>, moTa |-> <<>>]

NoForm == [mode |-> "none", initial |-> JUndefined, v |-> BlankDraft, touched |-> {}]

\* the hydrate effect of ProductProvider, run once after the first render
HydrateEffect ==
    /\ ~boot.ran
    /\ \E fromLS \in {loadFromStorage(storage)} :
       \E action \in {[type |-> "hydrate",
                        payload |-> IF usePersisted(fromLS) THEN fromLS
                                    ELSE JArr(initialProducts)]} :
       \E r \in {reducer(state, action, storage, TRUE)} :
          /\ state' = r.state
          /\ boot' = [ran |-> TRUE,
                      source |-> IF usePersisted(fromLS) THEN "storage" ELSE "seed",
                      threw |-> r.threw]
          /\ last' = Dispatched(action, TRUE, r)
    /\ UNCHANGED <<storage, assigned, search, page, requested, form, emitted, event, route>>

Ready == boot.ran /\ ~boot.threw

\* dispatch of a store operation; ok says whether localStorage takes the write
Dispatch(action, ok) ==
    \E r \in {reducer(state, action, storage, ok)} :
       /\ state' = r.state
       /\ storage' = r.storage
       /\ last' = Dispatched(action, ok, r)
       /\ assigned' = IF action.type = "add" /\ ~r.threw
                      THEN Append(assigned, state.nextId) ELSE assigned
       /\ UNCHANGED boot

\* the largest identifier "add" hands out in the model
MaxId == 13

DraftA ==
    NewProduct(<<"P", "e", "n">>, Khac, N(5), N(1), <<"o", "k">>)

DraftB ==
    NewProduct(<<"a", "\"", "b", "\\">>, Sach, Norm(15, 1), N(10), <<"x", " ", "y">>)

Drafts == {DraftA, DraftB}

\* what update writes over a product
DraftC ==
    NewProduct(<<"I", "n", "k">>, Khac, N(7), N(2), <<"n", "e", "w">>)

UpdateIds == {12, 99}

DeleteIds == {1, 12, 99}

\* add(p)
Add(p, ok) ==
    /\ Ready
    /\ NumLE(state.nextId, N(MaxId))
    /\ Dispatch([type |-> "add", payload |-> p], ok)
    /\ UNCHANGED <<search, page, requested, form, emitted, event, route>>

\* update(p)
Update(p, ok) ==
    /\ Ready
    /\ Dispatch([type |-> "update", payload |-> p], ok)
    /\ UNCHANGED <<search, page, requested, form, emitted, event, route>>

\* remove(id)
Remove(id, ok) ==
    /\ Ready
    /\ Dispatch([type |-> "delete", payload |-> JObj(<<[k |-> KId, v |-> JNum(id)]>>)], ok)
    /\ UNCHANGED <<search, page, requested, form, emitted, event, route>>

\* the page is loaded again: the provider starts over, localStorage stays
Reload ==
    /\ boot.ran
    /\ state' = initialState
    /\ boot' = NotBooted
    /\ last' = NoDispatch
    /\ assigned' = <<>>
    /\ UNCHANGED <<storage, search, page, requested, form, emitted, event, route>>

InitView ==
    /\ search = <<>>
    /\ page = 1
    /\ requested = NoRequest
    /\ route = HomeRoute

InitForm ==
    /\ form = NoForm
    /\ emitted = <<>>
    /\ event = "none"

Init ==
    /\ state = initialState
    /\ storage = NoEntry
    /\ boot = NotBooted
    /\ last = NoDispatch
    /\ assigned = <<>>
    /\ InitView
    /\ InitForm

Next ==
    \/ HydrateEffect
    \/ \E p \in Drafts, ok \in BOOLEAN : Add(p, ok)
    \/ \E i \in UpdateIds, ok \in BOOLEAN :
          Update(JObj(Spread(<<[k |-> KId, v |-> JNum(N(i))]>>, DraftC.v)), ok)
    \/ \E i \in DeleteIds, ok \in BOOLEAN : Remove(N(i), ok)
    \/ Reload

Spec == Init /\ [][Next]_vars

(***************************************************************************)
(* The store: claims C1 to C5 and C7, under Spec                            *)
(***************************************************************************)

IdsOf(products) == [i \in 1..Len(products) |-> Id(products[i])]

HasId(products, id) == \E i \in 1..Len(products) : StrictEq(Id(products[i]), id)

Mutation == {"add", "update", "delete"}

\* C1: after hydration and any adds, updates and removes, every product of
\* the list has an identifier strictly below nextId, no two products share an
\* identifier, and the identifiers add has handed out since the page was
\* loaded are pairwise different and all below nextId, so that no later add
\* hands one of them out again, whether or not its product is still listed.
C1_IdsBelowNextId ==
    /\ \A i \in 1..Len(state.products) :
          /\ Id(state.products[i]).t = "number"
          /\ NumLT(Id(state.products[i]).v, state.nextId)
    /\ \A i, j \in 1..Len(state.products) :
          i # j => Id(state.products[i]) # Id(state.products[j])
    /\ \A i, j \in 1..Len(assigned) : i # j => assigned[i] # assigned[j]
    /\ \A i \in 1..Len(assigned) : NumLT(assigned[i], state.nextId)

\* two adds in one session, the product of the first one removed in between
C1_Witness ==
    /\ Len(assigned) = 2
    /\ ~HasId(state.products, JNum(assigned[1]))
    /\ HasId(state.products, JNum(assigned[2]))

\* C2: every add gives the new product the value nextId had before it, which
\* is above every identifier an earlier add of the session handed out, and
\* leaves the list as the new product followed by the list as it was.
C2_AddPrepends ==
    [][last'.type = "add" =>
          /\ state'.products # <<>>
          /\ Id(Head(state'.products)) = JNum(state.nextId)
          /\ \A i \in 1..Len(last'.payload.v) :
                Get(Head(state'.products), last'.payload.v[i].k) = last'.payload.v[i].v
          /\ Tail(state'.products) = state.products
          /\ assigned' = Append(assigned, state.nextId)
          /\ \A i \in 1..Len(assigned) : NumLT(assigned[i], state.nextId)]_vars

\* a second add of the session, the product of the first one updated in
\* between and a product of the seed catalog removed
C2_Witness ==
    /\ last.type = "add"
    /\ Len(assigned) = 2
    /\ Id(Head(state.products)) = JNum(assigned[2])
    /\ ~HasId(state.products, JNum(N(1)))
    /\ \E i \in 1..Len(state.products) :
          /\ Id(state.products[i]) = JNum(assigned[1])
          /\ Get(state.products[i], KTen) = Get(DraftC, KTen)

\* C3: update(p) raises nothing and leaves the length of the list, the
\* identifier at every position and nextId as they were; every element whose
\* identifier is not p.id stays as it was, so with no such element the list
\* is unchanged.
C3_UpdateFrame ==
    [][last'.type = "update" =>
          /\ ~last'.threw
          /\ state'.nextId = state.nextId
          /\ Len(state'.products) = Len(state.products)
          /\ IdsOf(state'.products) = IdsOf(state.products)
          /\ \A i \in 1..Len(state.products) :
                ~StrictEq(Id(state.products[i]), Id(last'.payload))
                    => state'.products[i] = state.products[i]
          /\ ~HasId(state.products, Id(last'.payload))
                => state'.products = state.products]_vars

\* an update whose identifier no element of the list has
C3_Witness ==
    /\ last.type = "update"
    /\ state.products # <<>>
    /\ ~HasId(state.products, Id(last.payload))

\* C4: after remove(i) a second remove(i) changes neither the list nor nextId,
\* and remove(i) on a list with no element of identifier i leaves it unchanged.
C4_RemoveIdempotent ==
    [][last'.type = "delete" =>
          /\ ~HasId(state'.products, Id(last'.payload))
          /\ reducerDelete(state', last'.payload, storage', TRUE).state = state'
          /\ state'.nextId = state.nextId
          /\ ~HasId(state.products, Id(last'.payload))
                => state'.products = state.products]_vars

\* a remove of an identifier of the seed catalog
C4_Witness ==
    /\ last.type = "delete"
    /\ Id(last.payload) = JNum(N(1))
    /\ state.products # <<>>
    /\ ~HasId(state.products, JNum(N(1)))

\* C5: when the last write went through, loadFromStorage returns the list of
\* the store, equal field for field and in order, and loading the page again
\* hydrates the store with that list; this for every non-empty list.
C5_RoundTrip ==
    (/\ boot.ran
     /\ ~boot.threw
     /\ state.products # <<>>
     /\ last.type \in Mutation => last.wrote)
        => /\ last.type \in Mutation => loadFromStorage(storage) = JArr(state.products)
           /\ hydratePayload(storage) = JArr(state.products)

\* the page loaded again after an add of a product whose texts need escaping
\* and whose price has a fraction: the store holds it, not the seed catalog
C5_Witness ==
    /\ boot.ran
    /\ boot.source = "storage"
    /\ last.type = "hydrate"
    /\ state.products # initialProducts
    /\ \E i \in 1..Len(state.products) :
          /\ Get(state.products[i], KTen) = Get(DraftB, KTen)
          /\ Get(state.products[i], KGia) = Get(DraftB, KGia)

\* C7: when localStorage refuses the write of an add, update or remove, the
\* dispatch raises nothing and leaves the state the reducer returns when the
\* write goes through.
C7_WriteFailureAbsorbed ==
    [][(last'.type \in Mutation /\ ~last'.wrote) =>
          /\ ~last'.threw
          /\ state' = reducer(state, [type |-> last'.type, payload |-> last'.payload],
                              storage, TRUE).state
          /\ storage' = storage]_vars

\* an add whose write was refused: the product is in the list, not in storage
C7_Witness ==
    /\ last.type = "add"
    /\ ~last.wrote
    /\ state.products # <<>>
    /\ Id(Head(state.products)) = JNum(N(12))
    /\ loadFromStorage(storage) # JArr(state.products)


(***************************************************************************)
(* Startup on whatever localStorage holds: claim C6, under SpecLoad         *)
(***************************************************************************)

\* the longest text, in tokens, that InitLoad draws token by token
MaxRawLen == 3

RawTokens ==
    {Punct("["), Punct("]"), Punct("{"), Punct("}"), Punct(","), Punct(":"),
     Punct("null"), Tok("number", <<"1">>), Tok("string", <<"a">>), Tok("string", KId)}

RawSamples ==
    {stringify(JArr(<<Product(N(3), <<"P", "e", "n">>, Khac, N(5), N(1), <<"o", "k">>)>>)),
     stringify(JArr(<<JObj(<<[k |-> KId, v |-> JNum(N(1))]>>)>>)),
     stringify(JObj(<<[k |-> KLength, v |-> JNum(N(1))]>>)),
     stringify(JArr(<<DraftA>>))}

RawTexts ==
    UNION {[1..n -> RawTokens] : n \in 0..MaxRawLen} \cup RawSamples

InitLoad ==
    /\ state = initialState
    /\ storage \in {NoEntry} \cup {[has |-> TRUE, raw |-> ts] : ts \in RawTexts}
    /\ boot = NotBooted
    /\ last = NoDispatch
    /\ assigned = <<>>
    /\ InitView
    /\ InitForm

NextLoad == HydrateEffect

SpecLoad == InitLoad /\ [][NextLoad]_vars

IsProduct(x) ==
    /\ x.t = "object"
    /\ Get(x, KId).t = "number"
    /\ Get(x, KTen).t = "string"
    /\ Get(x, KDanhMuc).t = "string"
    /\ Get(x, KGia).t = "number"
    /\ Get(x, KSoLuong).t = "number"
    /\ Get(x, KMoTa).t = "string"

\* the entry is there and its text is JSON for an array of product objects
IsProductArray(store) ==
    /\ store.has
    /\ parse(store.raw).ok
    /\ parse(store.raw).val.t = "array"
    /\ \A i \in 1..Len(parse(store.raw).val.v) : IsProduct(parse(store.raw).val.v[i])

\* C6: when the entry is missing, is not JSON or is JSON for anything but an
\* array of product objects, loadFromStorage returns null, and the mount
\* effect hydrates the store with the seed catalog without throwing.
C6_WrongShapeIsAbsent ==
    (boot.ran /\ ~IsProductArray(storage)) =>
        /\ loadFromStorage(storage) = JNull
        /\ boot.source = "seed"
        /\ ~boot.threw
        /\ state.products = initialProducts
        /\ state.nextId = N(12)

(***************************************************************************)
(* The list view: useFilterParams, the projection of ProductListPage and   *)
(* Pagination                                                               *)
(***************************************************************************)

\* searchParams.get(name) ?? "": the first value under that name
getParam(sp, name) ==
    IF \E i \in 1..Len(sp) : sp[i].k = name
    THEN sp[CHOOSE i \in 1..Len(sp) :
                sp[i].k = name /\ \A j \in 1..(i - 1) : sp[j].k # name].v
    ELSE <<>>

\* useFilterParams: the FilterState read from the URL
useFilterParams(sp) ==
    [q |-> getParam(sp, "q"),
     danhMuc |-> getParam(sp, "danhMuc"),
     min |-> getParam(sp, "min"),
     max |-> getParam(sp, "max")]

\* set(patch) of useFilterParams, for a patch of one field: the search
\* parameters that replace the current ones
setFilterParams(sp, field, value) ==
    LET next == [useFilterParams(sp) EXCEPT ![field] = value]
    IN SelectSeq(<<[k |-> "q", v |-> next.q],
                   [k |-> "danhMuc", v |-> next.danhMuc],
                   [k |-> "min", v |-> next.min],
                   [k |-> "max", v |-> next.max]>>,
                 LAMBDA e : e.v # <<>>)

\* if (f.q.trim()) list = list.filter(p => p.ten.toLowerCase().includes(q))
filterQuery(list, fs) ==
    IF trim(fs.q) # <<>>
    THEN SelectSeq(list, LAMBDA p :
            includes(toLowerCase(Get(p, KTen).v), toLowerCase(fs.q)))
    ELSE list

\* if (f.danhMuc) list = list.filter(p => p.danhMuc === f.danhMuc)
filterCategory(list, fs) ==
    IF fs.danhMuc # <<>>
    THEN SelectSeq(list, LAMBDA p : StrictEq(Get(p, KDanhMuc), JStr(fs.danhMuc)))
    ELSE list

\* f.min ? Number(f.min) : undefined, and the same for f.max
priceBound(text) == IF text # <<>> THEN JNum(Number(text)) ELSE JUndefined

\* filterMin with p.gia > min
filterMinStrict(list, fs) ==
    LET min == priceBound(fs.min) IN
    IF min.t # "undefined" /\ ~isNaN(min.v)
    THEN SelectSeq(list, LAMBDA p : NumLT(min.v, Get(p, KGia).v))
    ELSE list

\* if (min != null && !Number.isNaN(min)) list = list.filter(p => p.gia >= min)
filterMin(list, fs) ==
    LET min == priceBound(fs.min) IN
    IF min.t # "undefined" /\ ~isNaN(min.v)
    THEN SelectSeq(list, LAMBDA p : NumLE(min.v, Get(p, KGia).v))
    ELSE list

\* if (max != null && !Number.isNaN(max)) list = list.filter(p => p.gia <= max)
filterMax(list, fs) ==
    LET max == priceBound(fs.max) IN
    IF max.t # "undefined" /\ ~isNaN(max.v)
    THEN SelectSeq(list, LAMBDA p : NumLE(Get(p, KGia).v, max.v))
    ELSE list

\* filtered of ProductListPage
filtered(products, fs) ==
    filterMax(filterMin(filterCategory(filterQuery(products, fs), fs), fs), fs)

Max(a, b) == IF a >= b THEN a ELSE b

Min(a, b) == IF a <= b THEN a ELSE b

\* Math.ceil(total / PAGE_SIZE)
ceilPages(total) ==
    IF total % PAGE_SIZE = 0 THEN total \div PAGE_SIZE ELSE total \div PAGE_SIZE + 1

\* totalPages with Math.floor for Math.ceil
totalPagesFloor(total) == Max(1, total \div PAGE_SIZE)

\* totalPages of Pagination
totalPages(total) == Max(1, ceilPages(total))

\* Array.prototype.slice(from, to) for 0 <= from <= to
slice(a, from, to) == SubSeq(a, from + 1, Min(to, Len(a)))

\* pageItems of ProductListPage for page number pg
pageItems(list, pg) == slice(list, (pg - 1) * PAGE_SIZE, (pg - 1) * PAGE_SIZE + PAGE_SIZE)

shown == filtered(state.products, useFilterParams(search))

\* Pagination is rendered only when total is not 0
PaginationShown == Ready /\ Len(shown) # 0

\* onChange of an input of SearchFilterBar, and the effect that resets the
\* page when a field of the FilterState changed
ChangeFilter(field, value) ==
    /\ Ready
    /\ search' = setFilterParams(search, field, value)
    /\ page' = IF useFilterParams(search') # useFilterParams(search) THEN 1 ELSE page
    /\ UNCHANGED <<state, storage, boot, last, assigned, requested, form, emitted, event, route>>

\* the Previous button, disabled on page 1
ClickPrevious ==
    /\ PaginationShown
    /\ page # 1
    /\ requested' = [ctl |-> "previous", p |-> Max(1, page - 1),
                     of |-> totalPages(Len(shown))]
    /\ page' = requested'.p
    /\ UNCHANGED <<state, storage, boot, last, assigned, search, form, emitted, event, route>>

\* the Next button, disabled on the last page
ClickNext ==
    /\ PaginationShown
    /\ page # totalPages(Len(shown))
    /\ requested' = [ctl |-> "next", p |-> Min(totalPages(Len(shown)), page + 1),
                     of |-> totalPages(Len(shown))]
    /\ page' = requested'.p
    /\ UNCHANGED <<state, storage, boot, last, assigned, search, form, emitted, event, route>>

\* one of the numbered buttons
ClickPage(p) ==
    /\ PaginationShown
    /\ p \in 1..totalPages(Len(shown))
    /\ requested' = [ctl |-> "number", p |-> p, of |-> totalPages(Len(shown))]
    /\ page' = p
    /\ UNCHANGED <<state, storage, boot, last, assigned, search, form, emitted, event, route>>

\* the most removes a session of the list view makes in the model
MaxRemoves == 1

Removed == state.nextId.m - 1 - Len(state.products)

\* onDelete of ProductListPage on card i of the page, the confirm dialog
\* answered yes or no
ClickDelete(i, yes) ==
    /\ Ready
    /\ Removed < MaxRemoves
    /\ i \in 1..Len(pageItems(shown, page))
    /\ IF yes
       THEN Dispatch([type |-> "delete",
                      payload |-> JObj(<<[k |-> KId, v |-> Id(pageItems(shown, page)[i])]>>)],
                     TRUE)
       ELSE UNCHANGED <<state, storage, boot, last, assigned>>
    /\ UNCHANGED <<search, page, requested, form, emitted, event, route>>

\* the most products the store holds when the list view opens
MaxItems == 13

\* the store as hydrated from the list a session before left in localStorage
HydratedFrom(list) ==
    /\ state = reducerHydrate(initialState, JArr(list), NoEntry).state
    /\ storage = [has |-> TRUE, raw |-> stringify(JArr(list))]
    /\ boot = [ran |-> TRUE, source |-> "storage", threw |-> FALSE]
    /\ last = [type |-> "hydrate", payload |-> JArr(list), wrote |-> TRUE, threw |-> FALSE]
    /\ assigned = <<>>

\* the seed catalog cut to n products, or with n - 11 added ones in front
Catalog(n) ==
    IF n <= Len(initialProducts) THEN SubSeq(initialProducts, 1, n)
    ELSE [i \in 1..(n - Len(initialProducts)) |->
             JObj(Spread(<<[k |-> KId, v |-> JNum(N(n + 1 - i))]>>,
                         (IF i % 2 = 0 THEN DraftA ELSE DraftB).v))]
         \o initialProducts

ViewFields == {"max"}

ViewValues == {<<>>, <<"1", "5", "9", "0", "0", "0">>}

InitListView ==
    /\ \E n \in 1..MaxItems : HydratedFrom(Catalog(n))
    /\ search = <<>>
    /\ page = 1
    /\ requested = NoRequest
    /\ route = HomeRoute
    /\ InitForm

NextListView ==
    \/ \E field \in ViewFields, value \in ViewValues : ChangeFilter(field, value)
    \/ ClickPrevious
    \/ ClickNext
    \/ \E p \in 1..totalPages(MaxItems) : ClickPage(p)
    \/ \E i \in 1..PAGE_SIZE, yes \in BOOLEAN : ClickDelete(i, yes)

SpecListView == InitListView /\ [][NextListView]_vars

\* the most products the store holds when the filters are tried
MaxListLen == 3

Shelf ==
    <<Product(N(1), <<"P", "e", "n">>, Khac, N(5), N(1), <<"o", "k">>),
      Product(N(2), <<"a", " ", "p", "e", "n">>, Sach, Norm(75, 1), N(2), <<"o", "k">>),
      Product(N(3), <<"I", "N", "K">>, Khac, N(10), N(3), <<"o", "k">>),
      Product(N(4), <<"U+00C1", "o">>, Sach, N(5), N(4), <<"o", "k">>)>>

\* the products of the shelf at the positions in keep, in their order
Kept(keep) == SelectSeq(Shelf, LAMBDA p : Id(p).v.m \in keep)

FilterValues(field) ==
    CASE field = "q" ->
            {<<>>, <<" ">>, <<"p", "e", "n">>, <<"P", "E", "N">>, <<" ", "p", "e", "n">>,
             <<"U+00E1">>}
      [] field = "danhMuc" -> {<<>>, Sach, Khac}
      [] field = "min" -> {<<>>, <<"5">>, <<"x">>, <<"7", ".", "5">>, <<" ">>}
      [] OTHER -> {<<>>, <<"5">>, <<"1", "0">>, <<"-">>}

InitFilter ==
    /\ \E keep \in SUBSET (1..Len(Shelf)) :
          /\ keep # {}
          /\ Cardinality(keep) <= MaxListLen
          /\ HydratedFrom(Kept(keep))
    /\ search = <<>>
    /\ page = 1
    /\ requested = NoRequest
    /\ route = HomeRoute
    /\ InitForm

NextFilter ==
    \E field \in {"q", "danhMuc", "min", "max"} :
        \E value \in FilterValues(field) : ChangeFilter(field, value)

SpecFilter == InitFilter /\ [][NextFilter]_vars

(***************************************************************************)
(* ProductForm, on AddPage and EditPage                                    *)
(***************************************************************************)

Fields == {"ten", "danhMuc", "gia", "soLuong", "moTa"}

Positive(a) == NumLT(N(0), a)

\* validate with the length of the name taken before trimming
validateUntrimmed(v) ==
    LET msg == [k \in Fields |->
            CASE k = "ten" ->
                    IF trim(v.ten) = <<>> THEN "required"
                    ELSE IF Len(v.ten) < 3 THEN "atLeast3" ELSE ""
              [] k = "danhMuc" -> IF v.danhMuc = <<>> THEN "choose" ELSE ""
              [] k = "gia" ->
                    IF v.gia = <<>> THEN "required"
                    ELSE IF isNaN(Number(v.gia)) \/ ~Positive(Number(v.gia))
                         THEN "positive" ELSE ""
              [] k = "soLuong" ->
                    IF v.soLuong = <<>> THEN "required"
                    ELSE IF ~isInteger(Number(v.soLuong)) \/ ~Positive(Number(v.soLuong))
                         THEN "positiveInteger" ELSE ""
              [] OTHER -> IF trim(v.moTa) = <<>> THEN "required" ELSE ""]
    IN [k \in {x \in Fields : msg[x] # ""} |-> msg[k]]

\* validate: the errors object, a message (here its kind) under each field
\* that breaks a rule
validate(v) ==
    LET msg == [k \in Fields |->
            CASE k = "ten" ->
                    IF trim(v.ten) = <<>> THEN "required"
                    ELSE IF Len(trim(v.ten)) < 3 THEN "atLeast3" ELSE ""
              [] k = "danhMuc" -> IF v.danhMuc = <<>> THEN "choose" ELSE ""
              [] k = "gia" ->
                    IF v.gia = <<>> THEN "required"
                    ELSE IF isNaN(Number(v.gia)) \/ ~Positive(Number(v.gia))
                         THEN "positive" ELSE ""
              [] k = "soLuong" ->
                    IF v.soLuong = <<>> THEN "required"
                    ELSE IF ~isInteger(Number(v.soLuong)) \/ ~Positive(Number(v.soLuong))
                         THEN "positiveInteger" ELSE ""
              [] OTHER -> IF trim(v.moTa) = <<>> THEN "required" ELSE ""]
    IN [k \in {x \in Fields : msg[x] # ""} |-> msg[k]]

\* the initial draft of ProductForm
initialDraft(initial) ==
    IF initial.t = "undefined" THEN BlankDraft
    ELSE [ten |-> Get(initial, KTen).v,
          danhMuc |-> Get(initial, KDanhMuc).v,
          gia |-> String(Get(initial, KGia).v),
          soLuong |-> String(Get(initial, KSoLuong).v),
          moTa |-> Get(initial, KMoTa).v]

\* the form as AddPage mounts it
AddForm == [mode |-> "add", initial |-> JUndefined, v |-> BlankDraft, touched |-> {}]

\* the form as EditPage mounts it for the product p it found
EditForm(p) == [mode |-> "edit", initial |-> p, v |-> initialDraft(p), touched |-> {}]

\* what submit hands to onSubmit
submitPayload(fm) ==
    IF fm.mode = "add"
    THEN NewProduct(trim(fm.v.ten), fm.v.danhMuc, Number(fm.v.gia),
                    Number(fm.v.soLuong), trim(fm.v.moTa))
    ELSE Product(Id(fm.initial).v, trim(fm.v.ten), fm.v.danhMuc, Number(fm.v.gia),
                 Number(fm.v.soLuong), trim(fm.v.moTa))

\* onChange of a field
ChangeField(field, value) ==
    /\ form.mode # "none"
    /\ form' = [form EXCEPT !.v[field] = value]
    /\ event' = "input"
    /\ UNCHANGED <<state, storage, boot, last, assigned, search, page, requested, emitted, route>>

\* onBlur of a field
Blur(field) ==
    /\ form.mode # "none"
    /\ form' = [form EXCEPT !.touched = @ \cup {field}]
    /\ event' = "input"
    /\ UNCHANGED <<state, storage, boot, last, assigned, search, page, requested, emitted, route>>

\* submit: with an error every field is marked touched and nothing else is
\* done; otherwise onSubmit gets the payload, AddPage adds it and EditPage
\* updates with it, and either navigates away, which unmounts the form
Submit(ok) ==
    /\ form.mode # "none"
    /\ IF DOMAIN validate(form.v) # {}
       THEN /\ form' = [form EXCEPT !.touched = Fields]
            /\ event' = "rejected"
            /\ UNCHANGED <<state, storage, boot, last, assigned, emitted, route>>
       ELSE /\ emitted' = Append(emitted, submitPayload(form))
            /\ Dispatch([type |-> IF form.mode = "add" THEN "add" ELSE "update",
                         payload |-> submitPayload(form)], ok)
            /\ form' = NoForm
            /\ event' = "accepted"
            /\ route' = IF form.mode = "add" THEN HomeRoute
                         ELSE DetailRoute(String(Id(submitPayload(form)).v))
    /\ UNCHANGED <<search, page, requested>>

FieldValues(field) ==
    CASE field = "ten" ->
            {<<>>, <<"A", "B">>, <<" ", "a", "b", " ">>, <<" ", "P", "e", "n", " ">>}
      [] field = "danhMuc" -> {<<>>, Sach}
      [] field = "gia" ->
            {<<>>, <<"0">>, <<"x">>, <<"1", ".", "5">>, <<"5", "0", "0", "0", "0">>}
      [] field = "soLuong" -> {<<>>, <<"0">>, <<"1", ".", "5">>, <<"1", "0">>}
      [] OTHER -> {<<>>, <<" ">>, <<" ", "o", "k", " ">>}

BlurFields == {"ten", "gia"}

\* the identifier in the address of EditPage
EditId == 11

InitFormPage ==
    /\ state = reducerHydrate(initialState, JArr(initialProducts), NoEntry).state
    /\ storage = NoEntry
    /\ boot = [ran |-> TRUE, source |-> "seed", threw |-> FALSE]
    /\ last = [type |-> "hydrate", payload |-> JArr(initialProducts),
               wrote |-> TRUE, threw |-> FALSE]
    /\ assigned = <<>>
    /\ search = <<>>
    /\ page = 1
    /\ requested = NoRequest
    /\ form \in {AddForm}
          \cup {EditForm(initialProducts[i]) : i \in {j \in 1..Len(initialProducts) :
                    StrictEq(Id(initialProducts[j]), JNum(N(EditId)))}}
    /\ emitted = <<>>
    /\ event = "none"
    /\ route = IF form.mode = "add" THEN AddRoute
               ELSE EditRoute(String(Id(form.initial).v))

NextForm ==
    \/ \E field \in Fields : \E value \in FieldValues(field) : ChangeField(field, value)
    \/ \E field \in BlurFields : Blur(field)
    \/ \E ok \in BOOLEAN : Submit(ok)

SpecForm == InitFormPage /\ [][NextForm]_vars

(***************************************************************************)
(* The list projection: claim C8 under SpecFilter, claim C9 under           *)
(* SpecListView                                                             *)
(***************************************************************************)

ApplyFilter(k, list, fs) ==
    CASE k = 1 -> filterQuery(list, fs)
      [] k = 2 -> filterCategory(list, fs)
      [] k = 3 -> filterMin(list, fs)
      [] OTHER -> filterMax(list, fs)

ApplyInOrder(order, list, fs) ==
    ApplyFilter(order[4],
        ApplyFilter(order[3],
            ApplyFilter(order[2],
                ApplyFilter(order[1], list, fs), fs), fs), fs)

Orders == {o \in [1..4 -> 1..4] : \A i, j \in 1..4 : i # j => o[i] # o[j]}

\* a price bound is active when its text is not empty and reads as a number
BoundActive(text) == text # <<>> /\ ~Number(text).nan

\* product p passes every predicate of fs that is active
Satisfies(p, fs) ==
    /\ trim(fs.q) # <<>> =>
          includes(toLowerCase(Get(p, KTen).v), toLowerCase(fs.q))
    /\ fs.danhMuc # <<>> => Get(p, KDanhMuc).v = fs.danhMuc
    /\ BoundActive(fs.min) => ~NumLT(Get(p, KGia).v, Number(fs.min))
    /\ BoundActive(fs.max) => ~NumLT(Number(fs.max), Get(p, KGia).v)

\* C8: the four filters applied in any of their 24 orders give the list the
\* view shows, which is the products that pass every active predicate (a price
\* equal to a bound passes), in the order they have in the store.
C8_FilterOrderIndependent ==
    /\ \A o \in Orders :
          ApplyInOrder(o, state.products, useFilterParams(search)) = shown
    /\ shown = SelectSeq(state.products,
                         LAMBDA p : Satisfies(p, useFilterParams(search)))

\* all four predicates active, a product priced at the minimum kept and
\* another product dropped
C8_Witness ==
    LET fs == useFilterParams(search) IN
    /\ trim(fs.q) # <<>>
    /\ fs.danhMuc # <<>>
    /\ BoundActive(fs.min)
    /\ BoundActive(fs.max)
    /\ Len(shown) > 0
    /\ Len(shown) < Len(state.products)
    /\ \E i \in 1..Len(shown) : Get(shown[i], KGia).v = Number(fs.min)

RECURSIVE PagesFrom(_, _, _)
\* the items of pages k to pc, one page after the other
PagesFrom(list, k, pc) ==
    IF k > pc THEN <<>> ELSE pageItems(list, k) \o PagesFrom(list, k + 1, pc)

\* C9: with n products shown the page count is 1 for n = 0 and otherwise the
\* least pc with n <= 6 * pc; pages 1 to pc, one after the other, are the
\* shown list; every page before the last has 6 items; 13 products make pages
\* of 6, 6 and 1; and Previous and Next call onPage with a page in 1..pc.
C9_Pagination ==
    LET n == Len(shown)
        pc == totalPages(n)
    IN /\ n = 0 => pc = 1
       /\ n > 0 => PAGE_SIZE * (pc - 1) < n /\ n <= PAGE_SIZE * pc
       /\ PagesFrom(shown, 1, pc) = shown
       /\ \A k \in 1..(pc - 1) : Len(pageItems(shown, k)) = PAGE_SIZE
       /\ n = 13 => /\ pc = 3
                    /\ Len(pageItems(shown, 1)) = 6
                    /\ Len(pageItems(shown, 2)) = 6
                    /\ Len(pageItems(shown, 3)) = 1
       /\ requested.ctl \in {"previous", "next"} =>
             requested.p >= 1 /\ requested.p <= requested.of

\* 13 products shown, Next clicked through to page 3
C9_Witness ==
    /\ Len(shown) = 13
    /\ requested = [ctl |-> "next", p |-> 3, of |-> 3]
    /\ page = 3
    /\ Len(pageItems(shown, page)) = 1

(***************************************************************************)
(* The form: claim C10 under SpecForm                                       *)
(***************************************************************************)

\* the field rules as the form's table states them
RuleBroken(v) ==
    \/ trim(v.ten) = <<>>
    \/ Len(trim(v.ten)) < 3
    \/ v.danhMuc = <<>>
    \/ v.gia = <<>>
    \/ ~Positive(Number(v.gia))
    \/ v.soLuong = <<>>
    \/ ~(isInteger(Number(v.soLuong)) /\ Positive(Number(v.soLuong)))
    \/ trim(v.moTa) = <<>>

\* C10: a submit of a draft that breaks a rule marks the five fields touched,
\* hands nothing to onSubmit and leaves the store and localStorage alone; a
\* submit of a draft that breaks none hands onSubmit one payload, its texts
\* trimmed, its price and quantity numbers, without an identifier in add mode
\* and with the identifier of the edited product in edit mode.
C10_SubmitGated ==
    [][event' \in {"rejected", "accepted"} =>
          IF RuleBroken(form.v)
          THEN /\ event' = "rejected"
               /\ form'.touched = Fields
               /\ form'.v = form.v
               /\ emitted' = emitted
               /\ state' = state
               /\ storage' = storage
          ELSE /\ event' = "accepted"
               /\ Len(emitted') = Len(emitted) + 1
               /\ SubSeq(emitted', 1, Len(emitted)) = emitted
               /\ LET p == emitted'[Len(emitted')] IN
                  /\ Get(p, KTen) = JStr(trim(form.v.ten))
                  /\ Get(p, KDanhMuc) = JStr(form.v.danhMuc)
                  /\ Get(p, KGia) = JNum(Number(form.v.gia))
                  /\ Get(p, KSoLuong) = JNum(Number(form.v.soLuong))
                  /\ Get(p, KMoTa) = JStr(trim(form.v.moTa))
                  /\ form.mode = "add" => ~HasKey(p.v, KId)
                  /\ form.mode = "edit" => Id(p) = Id(form.initial)]_vars

\* the add form submitted with the name "AB" and the other fields in order
C10_Witness ==
    /\ event = "rejected"
    /\ form.mode = "add"
    /\ form.v.ten = <<"A", "B">>
    /\ DOMAIN validate(form.v) = {"ten"}
    /\ form.touched = Fields
    /\ emitted = <<>>
    /\ state.products = initialProducts

(***************************************************************************)
(* DetailPage and EditPage                                                  *)
(***************************************************************************)

RECURSIVE find(_, _)
\* products.find((p) => p.id === Number(id)): the first match, or undefined
find(products, id) ==
    IF products = <<>> THEN JUndefined
    ELSE IF StrictEq(Id(Head(products)), JNum(Number(id))) THEN Head(products)
    ELSE find(Tail(products), id)

ItemPaths == {"/products/:id", "/edit/:id"}

\* what DetailPage renders for the route's id
DetailPage ==
    IF ~Truthy(find(state.products, route.id)) THEN "not-found" ELSE "detail"

\* what EditPage renders for the route's id
EditPage ==
    IF ~Truthy(find(state.products, route.id)) THEN "not-found" ELSE "form"

\* the element Shell's Routes render for the location
Shell ==
    CASE route.path = "/" -> "list"
      [] route.path = "/products/:id" -> DetailPage
      [] route.path = "/add" -> "form"
      [] route.path = "/edit/:id" -> EditPage

\* the Chi tiet and Sua buttons of the card of item i of the page
CardNavigate(i, path) ==
    /\ route = HomeRoute
    /\ i \in 1..Len(pageItems(shown, page))
    /\ route' = [path |-> path, id |-> String(Id(pageItems(shown, page)[i]).v)]
    /\ UNCHANGED <<state, storage, boot, last, assigned, search, page, requested,
                   form, emitted, event>>

\* onDelete of DetailPage, the confirm dialog answered yes or no
DetailDelete(yes) ==
    /\ route.path = "/products/:id"
    /\ DetailPage = "detail"
    /\ Removed < MaxRemoves
    /\ IF yes
       THEN /\ Dispatch([type |-> "delete",
                         payload |-> JObj(<<[k |-> KId,
                                             v |-> Id(find(state.products, route.id))]>>)],
                        TRUE)
            /\ route' = HomeRoute
       ELSE UNCHANGED <<state, storage, boot, last, assigned, route>>
    /\ UNCHANGED <<search, page, requested, form, emitted, event>>

\* the Sua button of DetailPage
DetailEdit ==
    /\ route.path = "/products/:id"
    /\ DetailPage = "detail"
    /\ route' = EditRoute(String(Id(find(state.products, route.id)).v))
    /\ UNCHANGED <<state, storage, boot, last, assigned, search, page, requested,
                   form, emitted, event>>

\* onSubmit of EditPage with the payload p of its form
EditSubmit(p) ==
    /\ route.path = "/edit/:id"
    /\ EditPage = "form"
    /\ Dispatch([type |-> "update", payload |-> p], TRUE)
    /\ route' = DetailRoute(String(Id(p).v))
    /\ UNCHANGED <<search, page, requested, form, emitted, event>>

\* the links of Header to the list
HeaderHome ==
    /\ route # HomeRoute
    /\ route' = HomeRoute
    /\ UNCHANGED <<state, storage, boot, last, assigned, search, page, requested,
                   form, emitted, event>>

\* the cards of the page whose buttons are used in the model
MaxCard == 2

\* the most products localStorage holds when the application is opened
MaxStored == 2

\* the :id segments the application is opened at
IdTexts == {<<"3">>, <<"0", "3">>, <<"1", "2">>, <<"a", "b", "c">>}

\* the application opened at the address of a detail or an edit destination
InitDetail ==
    /\ state = initialState
    /\ storage \in {NoEntry}
          \cup {[has |-> TRUE, raw |-> stringify(JArr(Catalog(n)))] : n \in 1..MaxStored}
    /\ boot = NotBooted
    /\ last = NoDispatch
    /\ assigned = <<>>
    /\ search = <<>>
    /\ page = 1
    /\ requested = NoRequest
    /\ route \in {DetailRoute(id) : id \in IdTexts} \cup {EditRoute(id) : id \in IdTexts}
    /\ InitForm

NextDetail ==
    \/ HydrateEffect
    \/ \E i \in 1..MaxCard : \E path \in ItemPaths : CardNavigate(i, path)
    \/ \E yes \in BOOLEAN : DetailDelete(yes)
    \/ DetailEdit
    \/ EditSubmit(JObj(Spread(<<[k |-> KId, v |-> Id(find(state.products, route.id))]>>,
                              DraftC.v)))
    \/ HeaderHome

SpecDetail == InitDetail /\ [][NextDetail]_vars

\* a detail or edit destination is showing the not-found state
NotFoundShown == route.path \in ItemPaths /\ Shell = "not-found"

\* no product of the store has the identifier the route names
NoProductHasId ==
    \A i \in 1..Len(state.products) :
        Get(state.products[i], KId).v # Number(route.id)

\* C11: on a detail or edit destination the not-found state is shown exactly
\* when no product of the store has the route's identifier, and a view that
\* shows not-found goes on showing it through every step that does not
\* navigate away, the hydration at startup included.
C11_NotFoundTerminal ==
    [][/\ route.path \in ItemPaths => (NotFoundShown <=> NoProductHasId)
       /\ route'.path \in ItemPaths => (NotFoundShown' <=> NoProductHasId')
       /\ (NotFoundShown /\ route' = route) => NotFoundShown']_vars

\* C12: in the list view the page number is at least 1 and at most the page
\* count of the filtered list, whatever was filtered, paged or deleted, so a
\* filtered list with products is never shown as a page without any.
C12_PageWithinRange ==
    /\ page >= 1
    /\ page <= totalPages(Len(shown))
    /\ Len(shown) > 0 => Len(pageItems(shown, page)) > 0
====
